---- MODULE Spec2Model ----
(***************************************************************************)
(* Model of legion's chunked component storage (src/src/storage.rs):       *)
(* ChunkBuilder, Chunk, Archetype and the per-column borrow counters.      *)
(***************************************************************************)
EXTENDS Integers, Sequences, FiniteSets, TLC

VARIABLES
    builder,    \* ChunkBuilder under construction: components vec + shared map
    built,      \* outcome of ChunkBuilder::build on `builder`
    archetype,  \* Archetype: declared components / shared sets and the chunk list
    source,     \* the caller's ComponentSource (type ids in registration order)
    ret,        \* outcome of the last Archetype / Chunk operation
    sigOf,      \* shared signature each stored entity was inserted for
    pc,         \* per thread: position inside entity_data / entity_data_mut
    req,        \* per thread: accessor called and component type requested
    seen,       \* per thread: counter value loaded by the acquire loop (0 outside it)
    guard       \* per thread: Borrow variant held ("None", "Read", "Write")

vars == <<builder, built, archetype, source, ret, sigOf, pc, req, seen, guard>>

----------------------------------------------------------------------------
(* Bounds of the model *)
MaxRegs == 3        \* component registrations per builder in SpecBuild
MaxChunks == 2      \* chunks per archetype in Spec
MaxEntity == 3      \* entity values in Spec
MaxFill == 258      \* rows inserted in SpecFill
MaxFillChunks == 4  \* chunks per archetype in SpecFill
NumThreads == 3     \* threads sharing one chunk in SpecBorrow

(* ChunkBuilder::MAX_SIZE = 16 * 1024 *)
MAX_SIZE == 16384

(* size_of::<T>() of the component types used as inputs *)
SizeOf == [Zst |-> 0, A |-> 64, B |-> 8192, C |-> 5000, Big |-> 20000]
ComponentTypes == DOMAIN SizeOf

SharedTypes == {"S"}
SharedValues == {5, 7}

None == <<>>
Some(x) == <<x>>

Max(S) == CHOOSE x \in S : \A y \in S : y <= x
Min(S) == CHOOSE x \in S : \A y \in S : x <= y
Range(s) == {s[i] : i \in DOMAIN s}

----------------------------------------------------------------------------
(* ChunkBuilder *)

EmptyMap == [k \in {} |-> 0]

ChunkBuilder_new == [components |-> <<>>, shared |-> EmptyMap]

\* faulty variant: a registration replaces the earlier ones
register_component_overwriting(b, T) ==
    [b EXCEPT !.components = <<<<T, SizeOf[T]>>>>]

register_component(b, T) ==
    [b EXCEPT !.components = Append(@, <<T, SizeOf[T]>>)]

register_shared(b, T, data) ==
    [b EXCEPT !.shared = [k \in DOMAIN b.shared \cup {T} |->
                             IF k = T THEN data ELSE b.shared[k]]]

\* faulty variant: the size of the first registration instead of the largest
size_bytes_first(b) ==
    IF Len(b.components) = 0 THEN MAX_SIZE ELSE b.components[1][2]

size_bytes(b) ==
    IF Len(b.components) = 0
    THEN MAX_SIZE
    ELSE Max({b.components[i][2] : i \in DOMAIN b.components})

\* MAX_SIZE / size_bytes is an integer division: it panics on a zero divisor
build_panics(b) == size_bytes(b) = 0

\* faulty variant: one slot short of the quotient
build_capacity_off_by_one(b) ==
    LET q == (MAX_SIZE \div size_bytes(b)) - 1 IN IF q > 1 THEN q ELSE 1

build_capacity(b) ==
    LET q == MAX_SIZE \div size_bytes(b) IN IF q > 1 THEN q ELSE 1

\* faulty variant: the counters start at one instead of zero
build_with_counters_at_one(b) ==
    LET ids == {b.components[i][1] : i \in DOMAIN b.components} IN
    [capacity   |-> build_capacity(b),
     borrows    |-> [id \in ids |-> 1],
     entities   |-> <<>>,
     components |-> [id \in ids |-> <<>>],
     shared     |-> b.shared]

\* faulty variant: no counter is created for the registered components
build_without_counters(b) ==
    LET ids == {b.components[i][1] : i \in DOMAIN b.components} IN
    [capacity   |-> build_capacity(b),
     borrows    |-> EmptyMap,
     entities   |-> <<>>,
     components |-> [id \in ids |-> <<>>],
     shared     |-> b.shared]

build(b) ==
    LET ids == {b.components[i][1] : i \in DOMAIN b.components} IN
    [capacity   |-> build_capacity(b),
     borrows    |-> [id \in ids |-> 0],
     entities   |-> <<>>,
     components |-> [id \in ids |-> <<>>],
     shared     |-> b.shared]

----------------------------------------------------------------------------
(* UnsafeVec / Chunk *)

\* faulty variant: an order-preserving Vec::remove in place of swap_remove
swap_remove_shifting(v, index) ==
    [i \in 1..(Len(v) - 1) |-> IF i >= index + 1 THEN v[i + 1] ELSE v[i]]

\* Vec::swap_remove on a 0-based index < Len(v): the last element takes the
\* removed slot and the vector shrinks by one
swap_remove(v, index) ==
    [i \in 1..(Len(v) - 1) |-> IF i = index + 1 THEN v[Len(v)] ELSE v[i]]

\* Vec::swap_remove asserts index < len and panics otherwise
swap_remove_panics(v, index) == index >= Len(v)

len(c) == Len(c.entities)

\* faulty variant: off-by-one fullness test
is_full_late(c) == len(c) > c.capacity

is_full(c) == len(c) = c.capacity

\* entity_data_unchecked::<T>(): the column of T, or None when T is no key
entity_data_unchecked(c, T) ==
    IF T \in DOMAIN c.components THEN Some(c.components[T]) ELSE None

\* the value a caller stores in column T for entity e
DataOf(T, e) == <<T, e>>

\* one row pushed through entities_unchecked() and entity_data_unchecked()
push_row(c, e) ==
    [c EXCEPT !.entities = Append(@, e),
              !.components = [T \in DOMAIN c.components |->
                                 Append(c.components[T], DataOf(T, e))]]

\* faulty variant: the index is compared with the capacity, not the length
Chunk_remove_panics_at_capacity(c, id) == id >= c.capacity

\* Chunk::remove panics in its first swap_remove, before any write
Chunk_remove_panics(c, id) == swap_remove_panics(c.entities, id)

\* faulty variant: the loop over the columns is skipped
Chunk_remove_entities_only(c, id) ==
    [c EXCEPT !.entities = swap_remove(@, id)]

\* faulty variant: the columns drop their last value whatever the index
Chunk_remove_columns_pop(c, id) ==
    [c EXCEPT !.entities = swap_remove(@, id),
              !.components = [T \in DOMAIN c.components |->
                                 SubSeq(c.components[T], 1, Len(c.components[T]) - 1)]]

Chunk_remove(c, id) ==
    [c EXCEPT !.entities = swap_remove(@, id),
              !.components = [T \in DOMAIN c.components |->
                                 swap_remove(c.components[T], id)]]

\* the Option<Entity> returned by Chunk::remove, read after the removal
Chunk_remove_result(c, id) ==
    LET after == Chunk_remove(c, id) IN
    IF Len(after.entities) > id THEN Some(after.entities[id + 1]) ELSE None

\* validate() panics unless this holds
validate(c) ==
    \A T \in DOMAIN c.components : Len(c.components[T]) = Len(c.entities)

----------------------------------------------------------------------------
(* Archetype *)

Archetype_new(components, shared) ==
    [components |-> components, shared |-> shared, chunks |-> <<>>]

\* SharedDataSet::is_chunk_match: the chunk's shared slots equal the
\* signature's values
is_chunk_match(sig, c) ==
    \A k \in DOMAIN sig : k \in DOMAIN c.shared /\ c.shared[k] = sig[k]

RECURSIVE configure_shared(_, _, _)
configure_shared(sig, keys, b) ==
    IF keys = {} THEN b
    ELSE LET k == CHOOSE x \in keys : TRUE IN
         configure_shared(sig, keys \ {k}, register_shared(b, k, sig[k]))

RECURSIVE configure_components(_, _)
configure_components(src, b) ==
    IF src = <<>> THEN b
    ELSE configure_components(Tail(src), register_component(b, Head(src)))

\* the builder get_or_create_chunk hands to build()
configured(sig, src) ==
    configure_components(src, configure_shared(sig, DOMAIN sig, ChunkBuilder_new))

\* faulty variant: the filter tests fullness only
candidates_any_signature(chunks, sig) ==
    {i \in 1..Len(chunks) : ~is_full(chunks[i])}

\* 1-based positions of the chunks the filter of get_or_create_chunk keeps
candidates(chunks, sig) ==
    {i \in 1..Len(chunks) : ~is_full(chunks[i]) /\ is_chunk_match(sig, chunks[i])}

\* faulty variant: the last match is taken instead of the first
last_candidate(chunks, sig) == Max(candidates(chunks, sig))

\* .next() of the filtered enumeration
first_candidate(chunks, sig) == Min(candidates(chunks, sig))

\* Archetype::chunk / chunk_mut
chunk(arch, id) ==
    IF id < Len(arch.chunks) THEN Some(arch.chunks[id + 1]) ELSE None

\* faulty variant: the new chunk overwrites the last one
push_chunk_replacing_last(chunks, c) ==
    IF chunks = <<>> THEN <<c>> ELSE [chunks EXCEPT ![Len(chunks)] = c]

\* self.chunks.push(builder.build())
push_chunk(chunks, c) == Append(chunks, c)

\* rows of chunk id, empty when the id resolves to no chunk
StoredRows(arch, id) ==
    IF chunk(arch, id) = None THEN <<>> ELSE chunk(arch, id)[1].entities

NoRet == [op |-> "none", outcome |-> "none", chunk |-> -1, row |-> -1,
          result |-> None, sig |-> EmptyMap]

Signatures == [SharedTypes -> SharedValues]

GetOrCreateChunk(sig, maxChunks) ==
    /\ IF candidates(archetype.chunks, sig) # {}
       THEN /\ ret' = [NoRet EXCEPT !.op = "get_or_create_chunk",
                          !.outcome = "found", !.sig = sig,
                          !.chunk = first_candidate(archetype.chunks, sig) - 1]
            /\ UNCHANGED archetype
       ELSE IF build_panics(configured(sig, source))
       THEN /\ ret' = [NoRet EXCEPT !.op = "get_or_create_chunk",
                          !.outcome = "panic", !.sig = sig]
            /\ UNCHANGED archetype
       ELSE /\ Len(archetype.chunks) < maxChunks
            /\ archetype' = [archetype EXCEPT
                   !.chunks = push_chunk(@, build(configured(sig, source)))]
            /\ ret' = [NoRet EXCEPT !.op = "get_or_create_chunk",
                          !.outcome = "created", !.sig = sig,
                          !.chunk = Len(archetype'.chunks) - 1]
    /\ UNCHANGED <<builder, built, source, sigOf, pc, req, seen, guard>>

\* the caller of get_or_create_chunk writes one row into the returned chunk
AppendRow(e) ==
    /\ ret.op = "get_or_create_chunk"
    /\ ret.outcome # "panic"
    /\ archetype' = [archetype EXCEPT !.chunks[ret.chunk + 1] = push_row(@, e)]
    /\ sigOf' = [sigOf EXCEPT ![e] = Some(ret.sig)]
    /\ ret' = [NoRet EXCEPT !.op = "append", !.outcome = "ok",
                  !.chunk = ret.chunk, !.sig = ret.sig,
                  !.row = len(archetype.chunks[ret.chunk + 1]),
                  !.result = Some(e)]
    /\ UNCHANGED <<builder, built, source, pc, req, seen, guard>>

Remove(cid, row) ==
    /\ chunk(archetype, cid) # None
    /\ LET c == archetype.chunks[cid + 1] IN
       IF Chunk_remove_panics(c, row)
       THEN /\ ret' = [NoRet EXCEPT !.op = "remove", !.outcome = "panic",
                          !.chunk = cid, !.row = row]
            /\ UNCHANGED <<archetype, sigOf>>
       ELSE /\ archetype' = [archetype EXCEPT
                   !.chunks[cid + 1] = Chunk_remove(c, row)]
            /\ ret' = [NoRet EXCEPT !.op = "remove", !.outcome = "ok",
                          !.chunk = cid, !.row = row,
                          !.result = Chunk_remove_result(c, row)]
            /\ sigOf' = [e \in DOMAIN sigOf |->
                            IF row < Len(c.entities) /\ e = c.entities[row + 1]
                            THEN None ELSE sigOf[e]]
    /\ UNCHANGED <<builder, built, source, pc, req, seen, guard>>

\* a caller resolves a ChunkID through Archetype::chunk / chunk_mut
ChunkLookup(id) ==
    /\ ret' = [NoRet EXCEPT !.op = "chunk", !.chunk = id,
                  !.outcome = IF chunk(archetype, id) = None
                              THEN "absent" ELSE "found"]
    /\ UNCHANGED <<builder, built, archetype, source, sigOf, pc, req, seen, guard>>

\* ComponentSource inputs of the archetype specification
ComponentSources == {<<"B", "C">>, <<"Zst", "Big">>, <<"C">>, <<"Zst">>}

Entities == 1..MaxEntity

NoReq == [kind |-> "none", ty |-> "none", state |-> "none", result |-> "none"]

InitIdle ==
    /\ builder = ChunkBuilder_new
    /\ built = [status |-> "none", chunk |-> None]
    /\ pc = [t \in 1..NumThreads |-> "idle"]
    /\ req = [t \in 1..NumThreads |-> NoReq]
    /\ seen = [t \in 1..NumThreads |-> 0]
    /\ guard = [t \in 1..NumThreads |-> "None"]

Init ==
    /\ InitIdle
    /\ source \in ComponentSources
    /\ archetype = Archetype_new(Range(source), SharedTypes)
    /\ ret = NoRet
    /\ sigOf = [e \in Entities |-> None]

Next ==
    \/ \E sig \in Signatures : GetOrCreateChunk(sig, MaxChunks)
    \/ \E e \in Entities : sigOf[e] = None /\ AppendRow(e)
    \/ \E cid \in 0..(MaxChunks - 1), row \in 0..MaxEntity :
          row <= Len(StoredRows(archetype, cid)) /\ Remove(cid, row)
    \/ \E id \in 0..MaxChunks : ChunkLookup(id)

Spec == Init /\ [][Next]_vars

----------------------------------------------------------------------------
(* Properties of Spec: chunk rows and the archetype's chunk list *)

Chunks == archetype.chunks
ChunkIdx == 1..Len(Chunks)

\* C4: after every row append and every Chunk::remove with row_id < len(),
\* validate() succeeds on every chunk: each declared column is as long as the
\* entity array.
C4_ValidateAlways ==
    \A i \in ChunkIdx :
        /\ validate(Chunks[i])
        /\ \A T \in archetype.components :
               /\ T \in DOMAIN Chunks[i].components
               /\ Len(Chunks[i].components[T]) = Len(Chunks[i].entities)

C4_Witness ==
    /\ ret.op = "remove" /\ ret.outcome = "ok" /\ ret.result # None
    /\ Cardinality(archetype.components) = 2
    /\ len(Chunks[ret.chunk + 1]) >= 1

\* C5: Chunk::remove(i) with i < len(): if i is not the last row the call
\* returns the entity that was last and that entity now sits at row i; if i is
\* the last row it returns None; len() drops by one and every other row keeps
\* its entity.
C5_RemoveStep ==
    (ret'.op = "remove" /\ ret'.outcome = "ok") =>
        LET before == archetype.chunks[ret'.chunk + 1].entities
            after  == archetype'.chunks[ret'.chunk + 1].entities
            i      == ret'.row
            n      == Len(before)
        IN  /\ i < n
            /\ Len(after) = n - 1
            /\ (i < n - 1) => /\ ret'.result = Some(before[n])
                              /\ after[i + 1] = before[n]
            /\ (i = n - 1) => ret'.result = None
            /\ \A r \in 1..(n - 1) : r # i + 1 => after[r] = before[r]

C5_RemoveReturnsMoved == [][C5_RemoveStep]_vars

C5_Witness ==
    /\ ret.op = "remove" /\ ret.outcome = "ok" /\ ret.row = 0
    /\ ret.result # None
    /\ len(Chunks[ret.chunk + 1]) = 2

\* C6: with every insert going through get_or_create_chunk, every chunk has
\* len() <= capacity, is_full() holds exactly at len() = capacity, the chunk
\* get_or_create_chunk returns is not full, and no step changes the capacity
\* of an existing chunk.
C6_Bounded ==
    /\ \A i \in ChunkIdx :
           /\ Len(Chunks[i].entities) <= Chunks[i].capacity
           /\ is_full(Chunks[i]) <=> (Len(Chunks[i].entities) = Chunks[i].capacity)
    /\ (ret.op = "get_or_create_chunk" /\ ret.outcome # "panic") =>
           /\ ret.chunk + 1 \in ChunkIdx
           /\ Len(Chunks[ret.chunk + 1].entities) < Chunks[ret.chunk + 1].capacity

C6_CapacityFixed ==
    \A i \in ChunkIdx :
        /\ i <= Len(archetype'.chunks)
        /\ archetype'.chunks[i].capacity = archetype.chunks[i].capacity

C6_NeverOverflows == []C6_Bounded /\ [][C6_CapacityFixed]_vars

C6_Witness ==
    /\ ret.op = "append"
    /\ Len(Chunks) = 2
    /\ is_full(Chunks[1]) /\ Chunks[1].capacity = 2
    /\ Chunks[1].shared = Chunks[2].shared

\* C7: get_or_create_chunk is first-fit: if some existing chunk is not full
\* and holds the requested shared values it returns the lowest such index and
\* leaves the chunk list unchanged; otherwise it appends exactly one new chunk
\* and returns the last index.
C7_Fits(chunks, sig) ==
    {i \in 1..Len(chunks) :
        /\ Len(chunks[i].entities) < chunks[i].capacity
        /\ chunks[i].shared = sig}

C7_GetStep ==
    (ret'.op = "get_or_create_chunk" /\ ret'.outcome # "panic") =>
        LET fits == C7_Fits(archetype.chunks, ret'.sig) IN
        IF fits # {}
        THEN /\ ret'.outcome = "found"
             /\ \A j \in fits : ret'.chunk + 1 <= j
             /\ ret'.chunk + 1 \in fits
             /\ archetype' = archetype
        ELSE /\ ret'.outcome = "created"
             /\ Len(archetype'.chunks) = Len(archetype.chunks) + 1
             /\ SubSeq(archetype'.chunks, 1, Len(archetype.chunks)) = archetype.chunks
             /\ ret'.chunk = Len(archetype'.chunks) - 1
             /\ archetype'.chunks[ret'.chunk + 1].shared = ret'.sig
             /\ archetype'.chunks[ret'.chunk + 1].entities = <<>>

C7_FirstFit == [][C7_GetStep]_vars

\* an earlier chunk that regained space through a remove is reused although a
\* later chunk fits too
C7_Witness ==
    /\ ret.op = "get_or_create_chunk" /\ ret.outcome = "found" /\ ret.chunk = 0
    /\ C7_Fits(Chunks, ret.sig) = {1, 2}
    /\ len(Chunks[2]) >= 1

\* C8: get_or_create_chunk never returns a chunk whose shared values differ
\* from the requested signature, and every stored row lives in a chunk whose
\* shared values are the signature the row was inserted for.
C8_SignatureRespected ==
    /\ (ret.op = "get_or_create_chunk" /\ ret.outcome # "panic") =>
           Chunks[ret.chunk + 1].shared = ret.sig
    /\ \A i \in ChunkIdx : \A r \in 1..Len(Chunks[i].entities) :
           sigOf[Chunks[i].entities[r]] = Some(Chunks[i].shared)

\* a request for S=7 while the only chunk holds S=5 and has spare capacity
C8_Witness ==
    /\ ret.op = "get_or_create_chunk" /\ ret.outcome = "created"
    /\ ret.sig["S"] = 7
    /\ Len(Chunks) = 2
    /\ Chunks[1].shared["S"] = 5 /\ Chunks[2].shared["S"] = 7
    /\ len(Chunks[1]) = 1 /\ ~is_full(Chunks[1])

\* C16: chunks are only ever appended: no step shortens the chunk list or
\* puts another chunk at an existing index (capacity, shared values and
\* column types stay, and only the chunk an append or remove names changes
\* its rows), so a ChunkID once returned keeps resolving to the same chunk;
\* chunk(id) is "absent" exactly for id >= the number of chunks.
C16_Identity(c) ==
    [capacity |-> c.capacity, shared |-> c.shared, columns |-> DOMAIN c.components]

C16_AppendOnlyStep ==
    \A i \in 1..Len(archetype.chunks) :
        /\ i <= Len(archetype'.chunks)
        /\ C16_Identity(archetype'.chunks[i]) = C16_Identity(archetype.chunks[i])
        /\ (ret'.op \in {"get_or_create_chunk", "chunk"} \/ ret'.chunk + 1 # i) =>
               archetype'.chunks[i] = archetype.chunks[i]

C16_Lookup ==
    /\ (ret.op = "chunk") =>
           (ret.outcome = "absent" <=> ret.chunk >= Len(Chunks))
    /\ (ret.op = "get_or_create_chunk" /\ ret.outcome # "panic") =>
           chunk(archetype, ret.chunk) = Some(Chunks[ret.chunk + 1])

C16_AppendOnly == []C16_Lookup /\ [][C16_AppendOnlyStep]_vars

\* with two chunks, of which the first was emptied again, id 2 is absent
C16_Witness ==
    /\ ret.op = "chunk" /\ ret.outcome = "absent" /\ ret.chunk = 2
    /\ Len(Chunks) = 2
    /\ len(Chunks[1]) = 0 /\ len(Chunks[2]) >= 1

\* C18: rows stay aligned across columns: at every row r of every chunk the
\* value in each declared column is the value that was appended together with
\* the entity now stored at row r.
C18_RowsAligned ==
    \A i \in ChunkIdx : \A T \in DOMAIN Chunks[i].components :
        /\ Len(Chunks[i].components[T]) = Len(Chunks[i].entities)
        /\ \A r \in 1..Len(Chunks[i].entities) :
               Chunks[i].components[T][r] = DataOf(T, Chunks[i].entities[r])

\* a remove of row 0 moved the last row there, in both columns
C18_Witness ==
    /\ ret.op = "remove" /\ ret.outcome = "ok" /\ ret.row = 0
    /\ ret.result # None
    /\ source = <<"B", "C">>
    /\ Chunks[ret.chunk + 1].entities[1] = ret.result[1]
    /\ Chunks[ret.chunk + 1].components["B"][1] = DataOf("B", ret.result[1])
    /\ Chunks[ret.chunk + 1].components["C"][1] = DataOf("C", ret.result[1])

\* C19: Chunk::remove(row_id) with row_id >= len(), a remove on an empty
\* chunk included, panics before anything is modified: the entity arrays, the
\* columns and the borrow counters are as before and validate() still
\* succeeds; a remove with row_id < len() does not panic.
C19_RemoveStep ==
    (ret'.op = "remove") =>
        LET before == archetype.chunks[ret'.chunk + 1] IN
        /\ ret'.outcome = "panic" <=> ret'.row >= Len(before.entities)
        /\ ret'.row >= Len(before.entities) =>
               /\ archetype' = archetype
               /\ ret'.result = None
               /\ \A i \in 1..Len(archetype'.chunks) : validate(archetype'.chunks[i])

C19_OutOfRangeRemovePanics == [][C19_RemoveStep]_vars

\* a remove on an emptied chunk panicked while another chunk holds rows
C19_Witness ==
    /\ ret.op = "remove" /\ ret.outcome = "panic" /\ ret.row = 0
    /\ len(Chunks[ret.chunk + 1]) = 0
    /\ \E i \in ChunkIdx : len(Chunks[i]) >= 1

----------------------------------------------------------------------------
(* SpecFill: rows inserted one at a time, one shared signature, no removes *)

FillSources == {<<"A">>, <<"B">>, <<"Big">>, <<"C", "A">>}
FillSignature == [k \in SharedTypes |-> 5]

RECURSIVE RowsUpTo(_, _)
RowsUpTo(chunks, n) ==
    IF n = 0 THEN 0 ELSE RowsUpTo(chunks, n - 1) + Len(chunks[n].entities)

TotalRows == RowsUpTo(Chunks, Len(Chunks))

InitFill ==
    /\ InitIdle
    /\ source \in FillSources
    /\ archetype = Archetype_new(Range(source), SharedTypes)
    /\ ret = NoRet
    /\ sigOf = [e \in 1..MaxFill |-> None]

NextFill ==
    \/ GetOrCreateChunk(FillSignature, MaxFillChunks)
    \/ \E e \in 1..MaxFill : e = TotalRows + 1 /\ AppendRow(e)

SpecFill == InitFill /\ [][NextFill]_vars

CeilDiv(n, k) == (n + k - 1) \div k

\* C10: after N inserts through get_or_create_chunk into an empty archetype
\* of chunk capacity K there are exactly ceil(N/K) chunks, all full but the
\* last, which holds N - K*(ceil(N/K)-1) rows; one 64-byte component gives
\* K = 256, and 257 inserts give two chunks of 256 and 1 rows.
C10_FillShape ==
    /\ (source = <<"A">> /\ Len(Chunks) >= 1) => Chunks[1].capacity = 256
    /\ (ret.op = "append") =>
        LET N == TotalRows
            K == Chunks[1].capacity
            M == CeilDiv(N, K)
        IN  /\ Len(Chunks) = M
            /\ \A i \in 1..(M - 1) : Len(Chunks[i].entities) = K
            /\ Len(Chunks[M].entities) = N - K * (M - 1)
            /\ (source = <<"A">> /\ N = 257) =>
                   /\ Len(Chunks) = 2
                   /\ Len(Chunks[1].entities) = 256
                   /\ Len(Chunks[2].entities) = 1

C10_Witness ==
    /\ source = <<"A">> /\ ret.op = "append" /\ TotalRows = 257
    /\ Len(Chunks) = 2

----------------------------------------------------------------------------
(* SpecBuild: a ChunkBuilder is filled by registrations and then built *)

RegisterComponent(T) ==
    /\ built.status = "none"
    /\ Len(builder.components) < MaxRegs
    /\ builder' = register_component(builder, T)
    /\ UNCHANGED <<built, archetype, source, ret, sigOf, pc, req, seen, guard>>

RegisterShared(T, data) ==
    /\ built.status = "none"
    /\ builder' = register_shared(builder, T, data)
    /\ UNCHANGED <<built, archetype, source, ret, sigOf, pc, req, seen, guard>>

Build ==
    /\ built.status = "none"
    /\ built' = IF build_panics(builder)
                THEN [status |-> "panic", chunk |-> None]
                ELSE [status |-> "ok", chunk |-> Some(build(builder))]
    /\ UNCHANGED <<builder, archetype, source, ret, sigOf, pc, req, seen, guard>>

InitBuild ==
    /\ InitIdle
    /\ source = <<>>
    /\ archetype = Archetype_new({}, {})
    /\ ret = NoRet
    /\ sigOf = [e \in Entities |-> None]

NextBuild ==
    \/ \E T \in ComponentTypes : RegisterComponent(T)
    \/ \E T \in SharedTypes, data \in SharedValues : RegisterShared(T, data)
    \/ Build

SpecBuild == InitBuild /\ [][NextBuild]_vars

RegisteredSizes == {builder.components[i][2] : i \in DOMAIN builder.components}

\* C9: for any combination of registered component sizes (a zero-byte one, one
\* above the 16 KiB budget, none at all) build yields a chunk with
\* capacity >= 1, and capacity * max_component_size <= 16384 unless the
\* capacity was forced up to 1.
C9_CapacityForAnySizes ==
    built.status # "none" =>
        /\ built.status = "ok"
        /\ LET capacity == built.chunk[1].capacity
               max_size == IF RegisteredSizes = {} THEN MAX_SIZE
                           ELSE Max(RegisteredSizes)
           IN  /\ capacity >= 1
               /\ (max_size <= MAX_SIZE) => capacity * max_size <= MAX_SIZE

----------------------------------------------------------------------------
(* SpecBorrow: threads take and drop column guards on one chunk *)

Threads == 1..NumThreads
BorrowSource == <<"A", "B">>
RequestTypes == {"A", "B", "C"}

TheChunk == archetype.chunks[1]
Counter(T) == TheChunk.borrows[T]
SetCounter(T, v) == archetype' = [archetype EXCEPT !.chunks[1].borrows[T] = v]

\* faulty variant: the lookup always takes the counter of the first column
borrow_wrong_counter(T) == [fn |-> "aquire_read", state |-> BorrowSource[1]]

\* Chunk::borrow::<T>(): T's counter is handed to Borrow::aquire_read
borrow(T) == [fn |-> "aquire_read", state |-> T]

\* faulty variant: borrow_mut acquires a read borrow
borrow_mut_as_read(T) == [fn |-> "aquire_read", state |-> T]

\* faulty variant: borrow_mut always takes the counter of the first column
borrow_mut_wrong_counter(T) == [fn |-> "aquire_write", state |-> BorrowSource[1]]

\* Chunk::borrow_mut::<T>(): T's counter is handed to Borrow::aquire_write
borrow_mut(T) == [fn |-> "aquire_write", state |-> T]

\* .expect("entity data type not found in chunk") on the counter lookup
borrow_lookup_panics(c, T) == T \notin DOMAIN c.borrows

\* entity_data::<T>() (kind "read") and entity_data_mut::<T>() (kind "write")
Accessor(t, T, kind, call) ==
    /\ pc[t] = "idle"
    /\ IF entity_data_unchecked(TheChunk, T) = None
       THEN /\ req' = [req EXCEPT ![t] = [kind |-> kind, ty |-> T,
                                          state |-> "none", result |-> "absent"]]
            /\ UNCHANGED pc
       ELSE IF borrow_lookup_panics(TheChunk, T)
       THEN /\ req' = [req EXCEPT ![t] = [kind |-> kind, ty |-> T,
                                          state |-> "none", result |-> "none"]]
            /\ pc' = [pc EXCEPT ![t] = "panicked"]
       ELSE /\ req' = [req EXCEPT ![t] = [kind |-> kind, ty |-> T,
                                          state |-> call.state, result |-> "pending"]]
            /\ pc' = [pc EXCEPT ![t] = call.fn]
    /\ UNCHANGED <<builder, built, archetype, source, ret, sigOf, seen, guard>>

EntityData(t, T) == Accessor(t, T, "read", borrow(T))

EntityDataMut(t, T) == Accessor(t, T, "write", borrow_mut(T))

\* Borrow::aquire_read: load the counter; a negative value is an Err, which
\* the unwrap() in Chunk::borrow turns into a panic of the calling thread
AquireReadLoad(t) ==
    /\ pc[t] = "aquire_read"
    /\ IF Counter(req[t].state) < 0
       THEN /\ req' = [req EXCEPT ![t].result = "Err"]
            /\ pc' = [pc EXCEPT ![t] = "panicked"]
            /\ UNCHANGED seen
       ELSE /\ seen' = [seen EXCEPT ![t] = Counter(req[t].state)]
            /\ pc' = [pc EXCEPT ![t] = "read_cas"]
            /\ UNCHANGED req
    /\ UNCHANGED <<builder, built, archetype, source, ret, sigOf, guard>>

\* Borrow::aquire_read: compare-and-swap seen -> seen + 1, retry on failure
AquireReadCas(t) ==
    /\ pc[t] = "read_cas"
    /\ IF Counter(req[t].state) = seen[t]
       THEN /\ SetCounter(req[t].state, seen[t] + 1)
            /\ guard' = [guard EXCEPT ![t] = "Read"]
            /\ req' = [req EXCEPT ![t].result = "Ok"]
            /\ pc' = [pc EXCEPT ![t] = "holding"]
            /\ seen' = [seen EXCEPT ![t] = 0]
       ELSE /\ pc' = [pc EXCEPT ![t] = "aquire_read"]
            /\ UNCHANGED <<archetype, guard, req, seen>>
    /\ UNCHANGED <<builder, built, source, ret, sigOf>>

\* Borrow::aquire_write: load the counter; a nonzero value is an Err, which
\* the unwrap() in Chunk::borrow_mut turns into a panic of the calling thread
AquireWriteLoad(t) ==
    /\ pc[t] = "aquire_write"
    /\ IF Counter(req[t].state) # 0
       THEN /\ req' = [req EXCEPT ![t].result = "Err"]
            /\ pc' = [pc EXCEPT ![t] = "panicked"]
            /\ UNCHANGED seen
       ELSE /\ seen' = [seen EXCEPT ![t] = Counter(req[t].state)]
            /\ pc' = [pc EXCEPT ![t] = "write_cas"]
            /\ UNCHANGED req
    /\ UNCHANGED <<builder, built, archetype, source, ret, sigOf, guard>>

\* Borrow::aquire_write: compare-and-swap 0 -> -1, retry on failure
AquireWriteCas(t) ==
    /\ pc[t] = "write_cas"
    /\ IF Counter(req[t].state) = 0
       THEN /\ SetCounter(req[t].state, -1)
            /\ guard' = [guard EXCEPT ![t] = "Write"]
            /\ req' = [req EXCEPT ![t].result = "Ok"]
            /\ pc' = [pc EXCEPT ![t] = "holding"]
            /\ seen' = [seen EXCEPT ![t] = 0]
       ELSE /\ pc' = [pc EXCEPT ![t] = "aquire_write"]
            /\ UNCHANGED <<archetype, guard, req, seen>>
    /\ UNCHANGED <<builder, built, source, ret, sigOf>>

\* Drop for Borrow: Read decrements the counter, Write stores zero
Drop(t) ==
    /\ pc[t] = "holding"
    /\ IF guard[t] = "Read"
       THEN SetCounter(req[t].state, Counter(req[t].state) - 1)
       ELSE SetCounter(req[t].state, 0)
    /\ guard' = [guard EXCEPT ![t] = "None"]
    /\ req' = [req EXCEPT ![t] = NoReq]
    /\ pc' = [pc EXCEPT ![t] = "idle"]
    /\ UNCHANGED <<builder, built, source, ret, sigOf, seen>>

InitBorrow ==
    /\ InitIdle
    /\ source = BorrowSource
    /\ archetype = [Archetype_new(Range(source), SharedTypes) EXCEPT
                       !.chunks = <<build(configured(FillSignature, source))>>]
    /\ ret = NoRet
    /\ sigOf = [e \in Entities |-> None]

NextBorrow ==
    \E t \in Threads :
        \/ \E T \in RequestTypes : EntityData(t, T)
        \/ \E T \in RequestTypes : EntityDataMut(t, T)
        \/ AquireReadLoad(t)
        \/ AquireReadCas(t)
        \/ AquireWriteLoad(t)
        \/ AquireWriteCas(t)
        \/ Drop(t)

SpecBorrow == InitBorrow /\ [][NextBorrow]_vars

----------------------------------------------------------------------------
(* Properties of SpecBorrow *)

Columns == DOMAIN TheChunk.components

\* threads holding the slice returned by entity_data::<T>() / entity_data_mut::<T>()
ReadGuards(T) ==
    {t \in Threads : pc[t] = "holding" /\ req[t].kind = "read" /\ req[t].ty = T}
WriteGuards(T) ==
    {t \in Threads : pc[t] = "holding" /\ req[t].kind = "write" /\ req[t].ty = T}

Acquiring(t) == pc[t] \in {"aquire_read", "read_cas", "aquire_write", "write_cas"}
Moved(t) == pc'[t] # pc[t]

\* C1: on one column a write guard is never live together with a read guard
\* or a second write guard; a write acquisition that runs while a read guard
\* is live fails, a read acquisition that runs while a write guard is live
\* fails, and a read acquisition never fails while no write guard is live.
C1_Exclusive ==
    \A T \in Columns :
        /\ Cardinality(WriteGuards(T)) <= 1
        /\ WriteGuards(T) # {} => ReadGuards(T) = {}

C1_ConflictStep ==
    \A t \in Threads :
        (Acquiring(t) /\ Moved(t)) =>
            LET T == req[t].ty IN
            /\ (req[t].kind = "write" /\ ReadGuards(T) \cup WriteGuards(T) # {}) =>
                   /\ pc'[t] # "holding"
                   /\ pc[t] = "aquire_write" => req'[t].result = "Err"
            /\ (req[t].kind = "read" /\ WriteGuards(T) # {}) =>
                   /\ pc'[t] # "holding"
                   /\ pc[t] = "aquire_read" => req'[t].result = "Err"
            /\ (req[t].kind = "read" /\ WriteGuards(T) = {}) =>
                   req'[t].result # "Err"

C1_ReadersXorWriter == []C1_Exclusive /\ [][C1_ConflictStep]_vars

\* all threads but one hold read guards on column A and the remaining
\* thread's write acquisition on A was denied
C1_Witness ==
    \E w \in Threads :
        /\ req[w].kind = "write" /\ req[w].ty = "A" /\ req[w].result = "Err"
        /\ ReadGuards("A") = Threads \ {w}
        /\ Counter("A") = NumThreads - 1

\* C2: a column's counter equals the number of live read guards while no
\* write guard is live and -1 while one is; it is never below -1; dropping a
\* read guard decrements it, dropping a write guard stores 0; with no guard
\* live it is 0.
C2_CounterShape ==
    \A T \in Columns :
        /\ Counter(T) >= -1
        /\ Counter(T) = IF WriteGuards(T) # {} THEN -1
                        ELSE Cardinality(ReadGuards(T))
        /\ (\A t \in Threads : pc[t] # "holding") => Counter(T) = 0

C2_DropStep ==
    \A t \in Threads :
        (pc[t] = "holding" /\ Moved(t)) =>
            LET T == req[t].ty IN
            /\ pc'[t] = "idle"
            /\ req[t].kind = "read" => archetype'.chunks[1].borrows[T] = Counter(T) - 1
            /\ req[t].kind = "write" => archetype'.chunks[1].borrows[T] = 0
            /\ \A U \in Columns \ {T} : archetype'.chunks[1].borrows[U] = Counter(U)

C2_CounterCountsGuards == []C2_CounterShape /\ [][C2_DropStep]_vars

\* a write guard is live on A while every other thread reads column B
C2_Witness ==
    /\ Counter("A") = -1 /\ WriteGuards("A") # {}
    /\ Counter("B") = NumThreads - 1 /\ Cardinality(ReadGuards("B")) = NumThreads - 1

\* C3: a read acquisition succeeds only on a counter >= 0 and adds one to it;
\* a write acquisition succeeds only on a counter of 0 and sets it to -1; a
\* read is denied only on a negative counter and a write only on a nonzero
\* one, and a denied acquisition leaves the counter unchanged.
C3_AcquireStep ==
    \A t \in Threads :
        (Acquiring(t) /\ Moved(t)) =>
            LET T    == req[t].ty
                next == archetype'.chunks[1].borrows
            IN
            /\ (pc'[t] = "holding" /\ req[t].kind = "read") =>
                   /\ Counter(T) >= 0
                   /\ next[T] = Counter(T) + 1
                   /\ req'[t].result = "Ok"
            /\ (pc'[t] = "holding" /\ req[t].kind = "write") =>
                   /\ Counter(T) = 0
                   /\ next[T] = -1
                   /\ req'[t].result = "Ok"
            /\ (req'[t].result = "Err" /\ req[t].kind = "read") =>
                   Counter(T) < 0 /\ next = TheChunk.borrows
            /\ (req'[t].result = "Err" /\ req[t].kind = "write") =>
                   Counter(T) # 0 /\ next = TheChunk.borrows
            /\ pc'[t] # "holding" => next = TheChunk.borrows
            /\ pc'[t] \in {"holding", "panicked"} <=> req'[t].result \in {"Ok", "Err"}

C3_AcquireContract == [][C3_AcquireStep]_vars

\* a write on A was denied (counter 1, unchanged) while a reader holds A
C3_Witness ==
    \E t \in Threads, u \in Threads :
        /\ req[t].kind = "write" /\ req[t].ty = "A" /\ req[t].result = "Err"
        /\ u \in ReadGuards("A")
        /\ Counter("A") = 1

\* C11: a borrow conflict met through entity_data::<T>() or
\* entity_data_mut::<T>() comes back to the caller as a recoverable failure
\* value, never as a fatal abort of the caller, and the denied call leaves the
\* counters and the live guards as they were.
C11_ConflictIsRecoverable ==
    \A t \in Threads :
        req[t].result = "Err" =>
            /\ pc[t] # "panicked"
            /\ \A T \in Columns :
                   Counter(T) = IF WriteGuards(T) # {} THEN -1
                                ELSE Cardinality(ReadGuards(T))

\* C12: borrow arbitration is per component type: a step of a thread working
\* on column A never changes the counter of another column, an acquisition on
\* a column is denied only when a guard on that same column is live, and write
\* guards on two different columns can be live together.
C12_PerColumnStep ==
    \A t \in Threads :
        (pc[t] # "idle" /\ Moved(t)) =>
            LET T == req[t].ty IN
            /\ \A U \in Columns \ {T} :
                   archetype'.chunks[1].borrows[U] = Counter(U)
            /\ req'[t].result = "Err" =>
                   ReadGuards(T) \cup WriteGuards(T) # {}

C12_Independent ==
    \A T \in Columns :
        /\ Counter(T) = 0 <=> ReadGuards(T) \cup WriteGuards(T) = {}
        /\ Counter(T) < 0 <=> WriteGuards(T) # {}

C12_PerColumn == []C12_Independent /\ [][C12_PerColumnStep]_vars

\* write guards on A and on B are live at the same time
C12_Witness ==
    /\ WriteGuards("A") # {} /\ WriteGuards("B") # {}
    /\ Counter("A") = -1 /\ Counter("B") = -1

\* C14: on a built chunk entity_data::<T>() and entity_data_mut::<T>() return
\* "absent" exactly when T is no registered component, and then no counter
\* changes; the column map and the counter map have the same keys, so the
\* counter lookup never fails.
C14_KeysAgree == DOMAIN TheChunk.components = DOMAIN TheChunk.borrows

C14_AccessorStep ==
    \A t \in Threads :
        (pc[t] = "idle" /\ req'[t] # req[t]) =>
            /\ req'[t].result = "absent" <=> req'[t].ty \notin Range(source)
            /\ req'[t].result = "absent" =>
                   /\ archetype' = archetype
                   /\ pc'[t] = "idle"
            /\ req'[t].result \in {"absent", "pending"}
            /\ pc'[t] # "panicked"

C14_AbsentIffUnregistered == []C14_KeysAgree /\ [][C14_AccessorStep]_vars

\* an unregistered type was probed while guards on A and B are live
C14_Witness ==
    \E t \in Threads :
        /\ req[t].result = "absent" /\ req[t].ty = "C" /\ pc[t] = "idle"
        /\ ReadGuards("A") # {} /\ WriteGuards("B") # {}

----------------------------------------------------------------------------
(* SpecCallers: get_or_create_chunk is handed whatever ComponentSource and  *)
(* shared signature its caller supplies; the archetype declares {B, C} / {S} *)

DeclaredSource == <<"B", "C">>
CallerSources == {<<"B", "C">>, <<"C", "B", "C">>, <<"C">>, <<"B", "C", "Big">>}
CallerSignatures == Signatures \cup {EmptyMap}

\* the caller picks the ComponentSource of its next call
SupplySource(src) ==
    /\ source' = src
    /\ UNCHANGED <<builder, built, archetype, ret, sigOf, pc, req, seen, guard>>

InitCallers ==
    /\ InitIdle
    /\ source = DeclaredSource
    /\ archetype = Archetype_new(Range(DeclaredSource), SharedTypes)
    /\ ret = NoRet
    /\ sigOf = [e \in Entities |-> None]

NextCallers ==
    \/ \E src \in CallerSources : SupplySource(src)
    \/ \E sig \in CallerSignatures : GetOrCreateChunk(sig, MaxChunks)
    \/ \E e \in Entities :
          /\ sigOf[e] = None
          /\ \A f \in Entities : sigOf[f] = None => e <= f
          /\ AppendRow(e)

SpecCallers == InitCallers /\ [][NextCallers]_vars

\* C13: after any sequence of get_or_create_chunk calls, with any
\* caller-supplied shared signature and component source, every chunk's column
\* set equals the archetype's declared components and its shared-value type
\* set equals the declared shared set.
C13_ChunksMatchArchetype ==
    \A i \in ChunkIdx :
        /\ DOMAIN Chunks[i].components = archetype.components
        /\ DOMAIN Chunks[i].shared = archetype.shared

\* C13 as amended: a chunk created from a component source that registers
\* exactly the declared component types and from a signature that holds
\* exactly the declared shared types has the declared column and shared-value
\* type sets, and no step changes the type sets of an existing chunk.
C13_ConformingStep ==
    /\ \A i \in 1..Len(archetype.chunks) :
           /\ i <= Len(archetype'.chunks)
           /\ DOMAIN archetype'.chunks[i].components = DOMAIN archetype.chunks[i].components
           /\ DOMAIN archetype'.chunks[i].shared = DOMAIN archetype.chunks[i].shared
    /\ (/\ ret'.op = "get_or_create_chunk" /\ ret'.outcome = "created"
        /\ Len(archetype'.chunks) = Len(archetype.chunks) + 1
        /\ Range(source) = archetype.components
        /\ DOMAIN ret'.sig = archetype.shared) =>
           LET new == archetype'.chunks[Len(archetype'.chunks)] IN
           /\ DOMAIN new.components = archetype.components
           /\ DOMAIN new.borrows = archetype.components
           /\ DOMAIN new.shared = archetype.shared

C13_ConformingCallsMatch == [][C13_ConformingStep]_vars

\* a chunk was just created from a reordered source with a duplicate
\* registration, and it has the declared type sets
C13_Witness ==
    /\ ret.op = "get_or_create_chunk" /\ ret.outcome = "created"
    /\ source = <<"C", "B", "C">>
    /\ DOMAIN ret.sig = archetype.shared
    /\ DOMAIN Chunks[ret.chunk + 1].components = archetype.components
    /\ DOMAIN Chunks[ret.chunk + 1].shared = archetype.shared

----------------------------------------------------------------------------
(* Properties of SpecBuild *)

\* every registration order of at most MaxRegs component types
RegistrationOrders == UNION {[1..k -> ComponentTypes] : k \in 0..MaxRegs}

SizesOf(src) == {SizeOf[src[i]] : i \in DOMAIN src}

SameMaxSize(sizes1, sizes2) ==
    \/ sizes1 = {} /\ sizes2 = {}
    \/ sizes1 # {} /\ sizes2 # {} /\ Max(sizes1) = Max(sizes2)

\* C15: the capacity computed by build depends on the largest registered
\* component size only: any other builder whose registrations have the same
\* largest size, whatever their order, number or duplicates, builds a chunk of
\* the same capacity.
C15_CapacityDependsOnMax ==
    built.status = "ok" =>
        \A src \in RegistrationOrders :
            SameMaxSize(RegisteredSizes, SizesOf(src)) =>
                LET other == configure_components(src, ChunkBuilder_new) IN
                /\ ~build_panics(other)
                /\ build(other).capacity = built.chunk[1].capacity

\* a chunk was built from three registrations whose first is not the largest
C15_Witness ==
    /\ built.status = "ok"
    /\ Len(builder.components) = 3
    /\ Cardinality(RegisteredSizes) >= 2
    /\ builder.components[1][2] < Max(RegisteredSizes)
    /\ built.chunk[1].capacity > 1

----------------------------------------------------------------------------
(* SpecBorrowFair: SpecBorrow under fair scheduling: a thread that is inside *)
(* an acquisition keeps being scheduled until the call returns              *)

AcquireStep(t) ==
    \/ AquireReadLoad(t)
    \/ AquireReadCas(t)
    \/ AquireWriteLoad(t)
    \/ AquireWriteCas(t)

SpecBorrowFair ==
    /\ InitBorrow
    /\ [][NextBorrow]_vars
    /\ \A t \in Threads : WF_vars(AcquireStep(t))

ConflictLive(t) ==
    \/ req[t].kind = "write" /\ ReadGuards(req[t].ty) \cup WriteGuards(req[t].ty) # {}
    \/ req[t].kind = "read" /\ WriteGuards(req[t].ty) # {}

\* an acquisition that meets a live conflicting guard fails in that very step,
\* with the guard still live, and a compare-and-swap is retried only when the
\* counter no longer holds the loaded value
C17_NoWaitStep ==
    \A t \in Threads :
        (Acquiring(t) /\ Moved(t)) =>
            /\ (pc[t] \in {"aquire_read", "aquire_write"} /\ ConflictLive(t)) =>
                   /\ req'[t].result = "Err"
                   /\ \A u \in Threads \ {t} : pc'[u] = pc[u] /\ req'[u] = req[u]
            /\ ConflictLive(t) => pc'[t] # "holding"
            /\ (pc[t] \in {"read_cas", "write_cas"} /\ pc'[t] # "holding") =>
                   /\ Counter(req[t].state) # seen[t]
                   /\ pc'[t] \in {"aquire_read", "aquire_write"}

====
